---- MODULE Spec2Model ----
(***************************************************************************)
(* Model of fix_bone_sliding.py: main() samples the world matrices of the  *)
(* armature, the active pose bone and the Empty for every frame of         *)
(* [frame_start, FRAME_END] (Phase 1), then writes a corrected bone matrix *)
(* and inserts location / rotation keyframes for every frame (Phase 2).    *)
(*                                                                         *)
(* Matrices are affine transforms [r: 3x3 block, t: translation] over the  *)
(* integers; the 3x3 blocks used have determinant 1 or 0, so products and  *)
(* inverses are exact.  Matrix.inverted() raises ValueError on a matrix    *)
(* without inverse; the exception leaves main() (pc = "raised").           *)
(***************************************************************************)
EXTENDS Integers, Sequences, FiniteSets, TLC

\* ---- bounds -------------------------------------------------------------
MaxFrame == 1        \* last frame of the timeline; frames are 0..MaxFrame
MaxRuns == 2         \* number of times the script is run in succession

\* ---- CONFIGURATION (lines 26-34) ----------------------------------------
EMPTY_NAME == "Empty"
FRAME_END == MaxFrame

Frames == 0..FRAME_END
Axes == 1..3

\* ---- matrices -----------------------------------------------------------
Mat(r, t) == [r |-> r, t |-> t]

I3 == <<<<1, 0, 0>>, <<0, 1, 0>>, <<0, 0, 1>>>>
RotZ == <<<<0, -1, 0>>, <<1, 0, 0>>, <<0, 0, 1>>>>
RotX == <<<<1, 0, 0>>, <<0, 0, -1>>, <<0, 1, 0>>>>
Zero3 == <<<<0, 0, 0>>, <<0, 0, 0>>, <<0, 0, 0>>>>

Identity == Mat(I3, <<0, 0, 0>>)

Cyc(i) == ((i - 1) % 3) + 1

Det3(m) ==
    m[1][1] * (m[2][2] * m[3][3] - m[2][3] * m[3][2])
  - m[1][2] * (m[2][1] * m[3][3] - m[2][3] * m[3][1])
  + m[1][3] * (m[2][1] * m[3][2] - m[2][2] * m[3][1])

\* cofactor of entry (i, j) of a 3x3 block
Cof3(m, i, j) ==
    m[Cyc(i + 1)][Cyc(j + 1)] * m[Cyc(i + 2)][Cyc(j + 2)]
  - m[Cyc(i + 1)][Cyc(j + 2)] * m[Cyc(i + 2)][Cyc(j + 1)]

Inv3(m) == [i \in Axes |-> [j \in Axes |-> Cof3(m, j, i) \div Det3(m)]]

Mul3(a, b) ==
    [i \in Axes |-> [j \in Axes |-> a[i][1] * b[1][j] + a[i][2] * b[2][j] + a[i][3] * b[3][j]]]

Apply3(a, v) == [i \in Axes |-> a[i][1] * v[1] + a[i][2] * v[2] + a[i][3] * v[3]]

VAdd(u, v) == [i \in Axes |-> u[i] + v[i]]
VSub(u, v) == [i \in Axes |-> u[i] - v[i]]

\* a @ b
MatMul(a, b) == Mat(Mul3(a.r, b.r), VAdd(Apply3(a.r, b.t), a.t))

\* Matrix.inverted() returns a value only for a matrix that has an inverse
HasInverse(m) == Det3(m.r) # 0

Inverted(m) == Mat(Inv3(m.r), VSub(<<0, 0, 0>>, Apply3(Inv3(m.r), m.t)))

\* ---- the host's scene ---------------------------------------------------
\* evaluated world matrices the Empty, the armature and the bone (armature
\* space) can have at a frame
EmptyWorlds ==
    { Mat(I3, <<0, 0, 0>>), Mat(I3, <<1, 2, 3>>), Mat(RotZ, <<1, 0, 0>>), Mat(Zero3, <<0, 0, 0>>) }
ArmRest == Mat(I3, <<0, 0, 1>>)
ArmTurned == Mat(RotZ, <<0, 1, 0>>)
ArmCollapsed == Mat(Zero3, <<0, 0, 1>>)
\* animations of the armature: still, moving, or collapsed (scale 0) at one frame
ArmatureCurves ==
    { [f \in Frames |-> ArmRest],
      [f \in Frames |-> ArmTurned],
      [f \in Frames |-> IF f % 2 = 0 THEN ArmTurned ELSE ArmRest] }
    \cup { [f \in Frames |-> IF f = k THEN ArmCollapsed ELSE ArmRest] : k \in Frames }
\* animations of the bone in armature space: at rest, or moving and turned
BoneCurves ==
    { [f \in Frames |-> Mat(I3, <<2, 0, 3>>)],
      [f \in Frames |-> Mat(IF f % 2 = 0 THEN RotX ELSE I3, <<f, 1, 2 * f>>)] }

ObjectTypes == {"NONE", "MESH", "ARMATURE"}
RotationModes == {"QUATERNION", "AXIS_ANGLE", "XYZ"}

VARIABLES
    objects,              \* names in bpy.data.objects
    active_object,        \* type of bpy.context.active_object ("NONE": no object)
    active_pose_bone,     \* TRUE iff bpy.context.active_pose_bone is not None
    rotation_mode,        \* pose_bone.rotation_mode
    frame_current,        \* scene.frame_current
    stale,                \* the clock changed since the last evaluation
    emptyAnim,            \* animated world matrix of the Empty, per frame
    armAnim,              \* animated world matrix of the armature, per frame
    fcurve,               \* animated location / rotation of the bone, per frame
    keyframes,            \* keyframes the script has put on the bone: <<path, frame>>
    empty_matrix_world,   \* empty.matrix_world (evaluated)
    armature_matrix_world,\* armature.matrix_world (evaluated)
    pose_matrix,          \* pose_bone.matrix
    FIX_X, FIX_Y, FIX_Z,  \* axis mask of the CONFIGURATION block
    pc,                   \* position in main()
    frame,                \* loop variable of both phases
    frame_start, saved_frame, rot_mode,
    samples,              \* frame -> [arm_w, bone_w, empty_w]
    empty_w_start,
    desired_bone_w,
    run,                  \* number of the current invocation
    clock0,               \* scene.frame_current at the invocation
    log,                  \* host calls of the current invocation, in order
    printed,              \* messages of the current invocation
    fcurve0,              \* the bone's animation at the invocation
    committed             \* run -> frame -> matrix assigned to pose_bone.matrix

host == <<objects, active_object, active_pose_bone, rotation_mode, emptyAnim, armAnim>>
config == <<FIX_X, FIX_Y, FIX_Z>>
anim == <<fcurve, keyframes>>
eval == <<empty_matrix_world, armature_matrix_world, pose_matrix>>
locals == <<frame, frame_start, saved_frame, rot_mode, samples, empty_w_start, desired_bone_w>>
vars == <<host, config, eval, locals, frame_current, stale, anim, pc, run, clock0, fcurve0, log,
          printed, committed>>

Event(op, f, path) == [op |-> op, frame |-> f, path |-> path]

\* lines 43-58: the Empty resolves and an armature with an active pose bone
\* is selected
Selected ==
    /\ EMPTY_NAME \in objects
    /\ active_object = "ARMATURE"
    /\ active_pose_bone

Init ==
    /\ objects \in {{}, {EMPTY_NAME}}
    /\ active_object \in ObjectTypes
    /\ active_pose_bone \in BOOLEAN
    \* a pose bone is active only while an armature is the active object
    /\ active_pose_bone => active_object = "ARMATURE"
    /\ rotation_mode \in RotationModes
    /\ frame_current \in 0..(FRAME_END + 1)
    /\ stale = FALSE
    /\ emptyAnim \in [Frames -> EmptyWorlds]
    /\ armAnim \in ArmatureCurves
    /\ fcurve \in BoneCurves
    /\ keyframes = {}
    /\ FIX_X \in BOOLEAN /\ FIX_Y \in BOOLEAN /\ FIX_Z \in BOOLEAN
    \* what the script never reads is left at rest: the frames before the
    \* current one, and the whole scene when nothing valid is selected
    /\ \A f \in Frames : (f < frame_current \/ ~Selected) =>
          /\ emptyAnim[f] = Identity
          /\ armAnim[f] # ArmCollapsed
    /\ (frame_current > FRAME_END \/ ~Selected) =>
          /\ armAnim = [f \in Frames |-> ArmRest]
          /\ fcurve = [f \in Frames |-> Mat(I3, <<2, 0, 3>>)]
          /\ rotation_mode = "XYZ"
          /\ FIX_X /\ FIX_Y /\ FIX_Z
    /\ empty_matrix_world = Identity
    /\ armature_matrix_world = Identity
    /\ pose_matrix = Identity
    /\ pc = "idle"
    /\ frame = 0 /\ frame_start = 0 /\ saved_frame = 0
    /\ rot_mode = "XYZ"
    /\ samples = <<>>
    /\ empty_w_start = Identity
    /\ desired_bone_w = Identity
    /\ run = 0
    /\ clock0 = frame_current
    /\ log = <<>>
    /\ printed = {}
    /\ fcurve0 = fcurve
    /\ committed = [k \in 1..MaxRuns |-> <<>>]

\* ---- host calls ---------------------------------------------------------
\* scene.frame_set(f)
FrameSet(f) ==
    /\ frame_current' = f
    /\ stale' = TRUE
    /\ log' = Append(log, Event("frame_set", f, ""))

\* bpy.context.view_layer.update() after the calls logged in lg, with `pose`
\* the value pose_bone.matrix holds: evaluates the animation of the current
\* frame when the clock has changed, keeps assigned values otherwise
UpdateAfter(lg, pose) ==
    /\ stale' = FALSE
    /\ log' = Append(lg, Event("update", frame_current, ""))
    /\ IF stale
       THEN /\ empty_matrix_world' = emptyAnim[frame_current]
            /\ armature_matrix_world' = armAnim[frame_current]
            /\ pose_matrix' = fcurve[frame_current]
       ELSE /\ UNCHANGED <<empty_matrix_world, armature_matrix_world>>
            /\ pose_matrix' = pose

Update == UpdateAfter(log, pose_matrix)

\* pose_bone.keyframe_insert(data_path, frame): keys the channel at the frame
\* with the value the bone holds
KeyframeInsert(path, f) ==
    /\ log' = Append(log, Event("keyframe_insert", f, path))
    /\ keyframes' = keyframes \cup {<<path, f>>}
    /\ fcurve' = IF path = "location"
                 THEN [fcurve EXCEPT ![f].t = pose_matrix.t]
                 ELSE [fcurve EXCEPT ![f].r = pose_matrix.r]

\* ---- main() -------------------------------------------------------------
\* the script is run (line 177), a first time or again after a completed run;
\* the locals of main() start afresh
Invoke ==
    /\ pc \in {"idle", "done"}
    /\ run < MaxRuns
    /\ run' = run + 1
    /\ clock0' = frame_current
    /\ log' = <<>>
    /\ printed' = {}
    /\ fcurve0' = fcurve
    /\ samples' = <<>>
    /\ pc' = "main"
    /\ UNCHANGED <<host, config, eval, frame_current, stale, anim, committed, frame,
                   frame_start, saved_frame, rot_mode, empty_w_start, desired_bone_w>>

Fail(msg) ==
    /\ printed' = printed \cup {msg}
    /\ pc' = "error"
    /\ UNCHANGED <<host, config, eval, locals, frame_current, stale, anim, run, clock0,
                   fcurve0, log, committed>>

\* the range check off by one
RangeOk_OffByOne == frame_current <= FRAME_END + 1

\* line 64, negated: the frame range is not empty
RangeOk == frame_current <= FRAME_END

\* lines 43-46
ErrorEmpty ==
    /\ pc = "main"
    /\ EMPTY_NAME \notin objects
    /\ Fail("ERROR_EMPTY")

\* lines 49-52
ErrorArmature ==
    /\ pc = "main"
    /\ EMPTY_NAME \in objects
    /\ active_object # "ARMATURE"
    /\ Fail("ERROR_ARMATURE")

\* lines 55-58
ErrorPoseBone ==
    /\ pc = "main"
    /\ EMPTY_NAME \in objects
    /\ active_object = "ARMATURE"
    /\ ~active_pose_bone
    /\ Fail("ERROR_POSE_BONE")

\* lines 61-66
ErrorFrameRange ==
    /\ pc = "main"
    /\ EMPTY_NAME \in objects
    /\ active_object = "ARMATURE"
    /\ active_pose_bone
    /\ ~RangeOk
    /\ Fail("ERROR_FRAME_RANGE")

\* lines 40-88: all checks pass
Setup ==
    /\ pc = "main"
    /\ EMPTY_NAME \in objects
    /\ active_object = "ARMATURE"
    /\ active_pose_bone
    /\ RangeOk
    /\ frame_start' = frame_current
    /\ rot_mode' = rotation_mode
    /\ saved_frame' = frame_current
    /\ samples' = <<>>
    /\ frame' = frame_current
    /\ printed' = printed \cup {"INFO_PHASE1"}
    /\ pc' = "p1_frame_set"
    /\ UNCHANGED <<host, config, eval, frame_current, stale, anim, run, clock0, fcurve0, log,
                   committed, empty_w_start, desired_bone_w>>

\* lines 89-90
P1_FrameSet ==
    /\ pc = "p1_frame_set"
    /\ frame <= FRAME_END
    /\ FrameSet(frame)
    /\ pc' = "p1_update"
    /\ UNCHANGED <<host, config, eval, locals, anim, run, clock0, fcurve0, printed, committed>>

\* the update after frame_set left out
P1_Update_Skipped ==
    /\ pc = "p1_update"
    /\ pc' = "p1_sample"
    /\ UNCHANGED <<host, config, eval, locals, frame_current, stale, anim, run, clock0,
                   fcurve0, log, printed, committed>>

\* line 91
P1_Update ==
    /\ pc = "p1_update"
    /\ Update
    /\ pc' = "p1_sample"
    /\ UNCHANGED <<host, config, locals, frame_current, anim, run, clock0, fcurve0, printed,
                   committed>>

\* lines 95-101: copies of the three evaluated matrices
Sample ==
    [arm_w |-> armature_matrix_world,
     bone_w |-> MatMul(armature_matrix_world, pose_matrix),
     empty_w |-> empty_matrix_world]

\* a fused pass: the bone is written in the pass that samples
P1_Sample_Fused ==
    /\ pc = "p1_sample"
    /\ samples' = (frame :> Sample) @@ samples
    /\ log' = Append(Append(log, Event("sample", frame, "")), Event("pose_write", frame, ""))
    /\ frame' = frame + 1
    /\ pc' = "p1_frame_set"
    /\ UNCHANGED <<host, config, eval, frame_current, stale, anim, run, clock0, fcurve0,
                   printed, committed, frame_start, saved_frame, rot_mode, empty_w_start,
                   desired_bone_w>>

\* every sample stored under the key of the start frame
P1_Sample_WrongKey ==
    /\ pc = "p1_sample"
    /\ samples' = (frame_start :> Sample) @@ samples
    /\ log' = Append(log, Event("sample", frame, ""))
    /\ frame' = frame + 1
    /\ pc' = "p1_frame_set"
    /\ UNCHANGED <<host, config, eval, frame_current, stale, anim, run, clock0, fcurve0,
                   printed, committed, frame_start, saved_frame, rot_mode, empty_w_start,
                   desired_bone_w>>

\* lines 95-107: the sample is stored
P1_Sample ==
    /\ pc = "p1_sample"
    /\ samples' = (frame :> Sample) @@ samples
    /\ log' = Append(log, Event("sample", frame, ""))
    /\ frame' = frame + 1
    /\ pc' = "p1_frame_set"
    /\ UNCHANGED <<host, config, eval, frame_current, stale, anim, run, clock0, fcurve0, printed,
                   committed, frame_start, saved_frame, rot_mode, empty_w_start,
                   desired_bone_w>>

\* the reference taken from the last frame instead of the first
ReferenceEmptyW_Last == samples[FRAME_END].empty_w

\* line 110: the Empty's world matrix at the start frame, the reference
ReferenceEmptyW == samples[frame_start].empty_w

\* lines 110-124: the loop of Phase 1 is over
P1_Done ==
    /\ pc = "p1_frame_set"
    /\ frame > FRAME_END
    /\ empty_w_start' = ReferenceEmptyW
    /\ printed' = printed \cup {"INFO_PHASE2"}
    /\ frame' = frame_start
    /\ pc' = "p2_frame_set"
    /\ UNCHANGED <<host, config, eval, frame_current, stale, anim, run, clock0, fcurve0, log,
                   committed, frame_start, saved_frame, rot_mode, samples, desired_bone_w>>

\* ---- Phase 2 ------------------------------------------------------------
AxisMask == <<FIX_X, FIX_Y, FIX_Z>>

\* the Empty's matrix applied without inverting it
DesiredBoneW_NoInverse(ref, s) == MatMul(MatMul(ref, s.empty_w), s.bone_w)

\* line 136: empty_w_start @ empty_w.inverted() @ bone_w
DesiredBoneW(ref, s) == MatMul(MatMul(ref, Inverted(s.empty_w)), s.bone_w)

\* the correction applied on every axis, whatever the mask
Delta_Unmasked(d, bone_w) == [i \in Axes |-> d.t[i] - bone_w.t[i]]

\* lines 140-143: the correction of the translation, zero on unfixed axes
Delta(d, bone_w) ==
    [i \in Axes |-> IF AxisMask[i] THEN d.t[i] - bone_w.t[i] ELSE 0]

\* only the translation taken from the desired matrix, the rotation kept
Masked_KeepRotation(d, bone_w) == Mat(bone_w.r, VAdd(bone_w.t, Delta(d, bone_w)))

\* line 144: desired_bone_w.translation = bone_w.translation + delta
Masked(d, bone_w) == Mat(d.r, VAdd(bone_w.t, Delta(d, bone_w)))

\* the armature's matrix applied without inverting it
LocalPose_NoInverse(arm_w, d) == MatMul(arm_w, d)

\* line 147: arm_w.inverted() @ desired_bone_w
LocalPose(arm_w, d) == MatMul(Inverted(arm_w), d)

\* the Euler channel keyed whatever the rotation mode
RotationPath_EulerOnly(mode) == "rotation_euler"

\* lines 154-160
RotationPath(mode) ==
    IF mode = "QUATERNION" THEN "rotation_quaternion"
    ELSE IF mode = "AXIS_ANGLE" THEN "rotation_axis_angle"
    ELSE "rotation_euler"

\* lines 126-127
P2_FrameSet ==
    /\ pc = "p2_frame_set"
    /\ frame <= FRAME_END
    /\ FrameSet(frame)
    /\ pc' = "p2_update"
    /\ UNCHANGED <<host, config, eval, locals, anim, run, clock0, fcurve0, printed, committed>>

\* samples stored without .copy(): they follow the evaluated matrices
P2_Update_Aliased ==
    /\ pc = "p2_update"
    /\ Update
    /\ pc' = "p2_desired"
    /\ samples' = [g \in DOMAIN samples |->
                     [samples[g] EXCEPT !.arm_w = armature_matrix_world',
                                        !.empty_w = empty_matrix_world']]
    /\ UNCHANGED <<host, config, frame_current, anim, run, clock0, fcurve0, printed,
                   committed, frame, frame_start, saved_frame, rot_mode, empty_w_start,
                   desired_bone_w>>

\* line 128
P2_Update ==
    /\ pc = "p2_update"
    /\ Update
    /\ pc' = "p2_desired"
    /\ UNCHANGED <<host, config, locals, frame_current, anim, run, clock0, fcurve0, printed,
                   committed>>

\* lines 130-144
P2_Desired ==
    /\ pc = "p2_desired"
    /\ HasInverse(samples[frame].empty_w)
    /\ desired_bone_w' =
          Masked(DesiredBoneW(empty_w_start, samples[frame]), samples[frame].bone_w)
    /\ pc' = "p2_write"
    /\ UNCHANGED <<host, config, eval, frame_current, stale, anim, run, clock0, fcurve0, log,
                   printed, committed, frame, frame_start, saved_frame, rot_mode, samples,
                   empty_w_start>>

\* a handler that undoes the keyframes of the run before it gives up
Raise_Rollback ==
    /\ pc' = "raised"
    /\ fcurve' = fcurve0
    /\ keyframes' = {k \in keyframes : k[2] \notin frame_start..FRAME_END}
    /\ UNCHANGED <<host, config, eval, locals, frame_current, stale, run, clock0, fcurve0,
                   log, printed, committed>>

\* lines 136, 147: the ValueError of Matrix.inverted() leaves main()
Raise ==
    /\ pc' = "raised"
    /\ UNCHANGED <<host, config, eval, locals, frame_current, stale, anim, run, clock0,
                   fcurve0, log, printed, committed>>

\* line 136: empty_w.inverted() raises ValueError, nothing catches it
P2_DesiredRaise ==
    /\ pc = "p2_desired"
    /\ ~HasInverse(samples[frame].empty_w)
    /\ Raise

\* arm_w not taken from the frame's sample: the value the last iteration of
\* Phase 1 left in the variable is used
P2_Write_StaleArm ==
    /\ pc = "p2_write"
    /\ HasInverse(samples[FRAME_END].arm_w)
    /\ LET m == LocalPose(samples[FRAME_END].arm_w, desired_bone_w)
       IN /\ UpdateAfter(Append(log, Event("pose_write", frame, "")), m)
          /\ committed' = [committed EXCEPT ![run] = (frame :> m) @@ @]
    /\ pc' = "p2_key_location"
    /\ UNCHANGED <<host, config, locals, frame_current, anim, run, clock0, fcurve0, printed>>

\* lines 147-148
P2_Write ==
    /\ pc = "p2_write"
    /\ HasInverse(samples[frame].arm_w)
    /\ LET m == LocalPose(samples[frame].arm_w, desired_bone_w)
       IN /\ UpdateAfter(Append(log, Event("pose_write", frame, "")), m)
          /\ committed' = [committed EXCEPT ![run] = (frame :> m) @@ @]
    /\ pc' = "p2_key_location"
    /\ UNCHANGED <<host, config, locals, frame_current, anim, run, clock0, fcurve0, printed>>

\* line 147: arm_w.inverted() raises ValueError, nothing catches it
P2_WriteRaise ==
    /\ pc = "p2_write"
    /\ ~HasInverse(samples[frame].arm_w)
    /\ Raise

\* line 151
P2_KeyLocation ==
    /\ pc = "p2_key_location"
    /\ KeyframeInsert("location", frame)
    /\ pc' = "p2_key_rotation"
    /\ UNCHANGED <<host, config, eval, locals, frame_current, stale, run, clock0, fcurve0, printed,
                   committed>>

\* lines 154-160
P2_KeyRotation ==
    /\ pc = "p2_key_rotation"
    /\ KeyframeInsert(RotationPath(rot_mode), frame)
    /\ frame' = frame + 1
    /\ pc' = "p2_frame_set"
    /\ UNCHANGED <<host, config, eval, frame_current, stale, run, clock0, fcurve0, printed,
                   committed, frame_start, saved_frame, rot_mode, samples, empty_w_start,
                   desired_bone_w>>

\* lines 162-163: the loop of Phase 2 is over
RestoreFrameSet ==
    /\ pc = "p2_frame_set"
    /\ frame > FRAME_END
    /\ FrameSet(saved_frame)
    /\ pc' = "restore_update"
    /\ UNCHANGED <<host, config, eval, locals, anim, run, clock0, fcurve0, printed, committed>>

\* lines 164-174
RestoreUpdate ==
    /\ pc = "restore_update"
    /\ Update
    /\ printed' = printed \cup {"INFO_DONE", "POPUP_DONE"}
    /\ pc' = "done"
    /\ UNCHANGED <<host, config, locals, frame_current, anim, run, clock0, fcurve0, committed>>

Next ==
    \/ Invoke
    \/ ErrorEmpty
    \/ ErrorArmature
    \/ ErrorPoseBone
    \/ ErrorFrameRange
    \/ Setup
    \/ P1_FrameSet
    \/ P1_Update
    \/ P1_Sample
    \/ P1_Done
    \/ P2_FrameSet
    \/ P2_Update
    \/ P2_Desired
    \/ P2_DesiredRaise
    \/ P2_Write
    \/ P2_WriteRaise
    \/ P2_KeyLocation
    \/ P2_KeyRotation
    \/ RestoreFrameSet
    \/ RestoreUpdate

Spec == Init /\ [][Next]_vars

\* ---- properties ---------------------------------------------------------
Terminal == pc \in {"done", "error", "raised"}

ErrorMessages == {"ERROR_EMPTY", "ERROR_ARMATURE", "ERROR_POSE_BONE", "ERROR_FRAME_RANGE"}

\* the frames the current invocation works on
Range == frame_start..FRAME_END

Count(op, f, paths) ==
    Cardinality({i \in DOMAIN log :
                   log[i].op = op /\ log[i].frame = f /\ log[i].path \in paths})

RotationPaths == {"rotation_quaternion", "rotation_axis_angle", "rotation_euler"}

NoInverseAt(f) == ~HasInverse(samples[f].empty_w) \/ ~HasInverse(samples[f].arm_w)

\* world matrix of the bone that the matrix committed at frame f gives
CorrectedWorld(f) == MatMul(samples[f].arm_w, committed[run][f])

Committed == IF run >= 1 THEN DOMAIN committed[run] ELSE {}

\* C1: at the end of every invocation (completion, configuration error or a
\* failure while correcting) scene.frame_current has the value it had when
\* the invocation began.
C1_ClockRestored == Terminal => frame_current = clock0

\* C2: no pose write and no keyframe insertion happens before every frame of
\* [frame_start, FRAME_END] has been sampled, and no sample is recorded after
\* a pose write: sampling and correction are two passes.
C2_PhaseBarrier ==
    \A i \in DOMAIN log :
        log[i].op \in {"pose_write", "keyframe_insert"} =>
            /\ \A f \in Range : \E j \in 1..(i - 1) : log[j] = Event("sample", f, "")
            /\ \A j \in (i + 1)..Len(log) : log[j].op # "sample"

C2_Witness ==
    /\ pc = "done"
    /\ frame_start < FRAME_END
    /\ Count("pose_write", FRAME_END, {""}) = 1

\* C3: on every axis whose FIX_ flag is false the translation of the
\* corrected world matrix of the bone equals the sampled one, at every frame.
C3_AxisIsolation ==
    /\ \A f \in Committed : \A i \in Axes :
          ~AxisMask[i] => CorrectedWorld(f).t[i] = samples[f].bone_w.t[i]
    /\ pc = "p2_write" =>
          \A i \in Axes : ~AxisMask[i] => desired_bone_w.t[i] = samples[frame].bone_w.t[i]

\* an unfixed axis on which the full correction would have moved the bone
C3_Witness ==
    \E f \in Committed : \E i \in Axes :
        /\ ~AxisMask[i]
        /\ DesiredBoneW(empty_w_start, samples[f]).t[i] # samples[f].bone_w.t[i]
        /\ \E k \in Axes : k # i /\ AxisMask[k]

\* the Empty and the bone are never rotated or scaled in the sampled range
PureTranslations ==
    \A g \in DOMAIN samples : samples[g].empty_w.r = I3 /\ samples[g].bone_w.r = I3

\* the bone does not move in world space over the sampled range
WorldStationary ==
    \A g \in DOMAIN samples : samples[g].bone_w = samples[frame_start].bone_w

AnchorSubtracted(f) ==
    \A i \in Axes : AxisMask[i] =>
        CorrectedWorld(f).t[i] =
            samples[f].bone_w.t[i]
              - (samples[f].empty_w.t[i] - samples[frame_start].empty_w.t[i])

\* C4 as amended: under pure translations the corrected world translation is,
\* on every fixed axis, the sampled one minus the Empty's displacement since
\* frame_start; an Empty that has not moved leaves the translation unchanged.
C4_AnchorSubtraction ==
    \A f \in Committed : PureTranslations =>
        /\ AnchorSubtracted(f)
        /\ samples[f].empty_w = samples[frame_start].empty_w =>
              CorrectedWorld(f).t = samples[f].bone_w.t

C4_Witness ==
    /\ pc = "done"
    /\ PureTranslations
    /\ FIX_X
    /\ FRAME_END \in Committed
    /\ samples[FRAME_END].empty_w.t[1] # samples[frame_start].empty_w.t[1]

\* C4 as stated: in addition a bone that is stationary in world space keeps
\* its original position at every frame while the Empty moves.
C4_StationaryStays ==
    \A f \in Committed : PureTranslations =>
        /\ AnchorSubtracted(f)
        /\ WorldStationary =>
              \A i \in Axes : AxisMask[i] =>
                  CorrectedWorld(f).t[i] = samples[frame_start].bone_w.t[i]

\* C5: at frame_start the corrected world matrix is the sampled one, for
\* every mask, and the matrix committed there is the bone's original matrix.
C5_ReferenceFixedPoint ==
    /\ frame_start \in Committed =>
          /\ CorrectedWorld(frame_start) = samples[frame_start].bone_w
          /\ committed[run][frame_start] = fcurve0[frame_start]
    /\ (pc = "p2_write" /\ frame = frame_start) =>
          desired_bone_w = samples[frame_start].bone_w

\* the start frame committed in a run whose Empty is elsewhere at the end
C5_Witness ==
    /\ frame_start \in Committed
    /\ frame_start < FRAME_END
    /\ samples[FRAME_END].empty_w # samples[frame_start].empty_w
    /\ samples[frame_start].empty_w # Identity
    /\ HasInverse(samples[FRAME_END].empty_w)

\* the Empty has the same world matrix at every frame of the range
StaticAnchor ==
    \A f \in Frames : f >= clock0 => emptyAnim[f] = emptyAnim[clock0]

\* C6: with an Empty that never moves, a second run commits at every frame
\* the matrix the first run committed, and both are the original matrix.
C6_Idempotent ==
    StaticAnchor =>
        \A f \in Committed :
            /\ committed[run][f] = fcurve0[f]
            /\ run >= 2 =>
                  /\ f \in DOMAIN committed[run - 1]
                  /\ committed[run][f] = committed[run - 1][f]

C6_Witness ==
    /\ run = 2
    /\ pc = "done"
    /\ StaticAnchor
    /\ Committed = Frames
    /\ Cardinality(Frames) >= 2

BadConfiguration == ~Selected \/ clock0 > FRAME_END

\* C7: with an Empty that does not resolve, no armature or pose bone
\* selected, or frame_start > FRAME_END, the invocation ends with an error
\* message and no frame_set, update, sample, pose write or keyframe.
C7_ConfigurationErrorsFirst ==
    (BadConfiguration /\ pc \notin {"idle", "main"}) =>
        /\ pc = "error"
        /\ printed \cap ErrorMessages # {}
        /\ printed \subseteq ErrorMessages
        /\ log = <<>>
        /\ samples = <<>>
        /\ Committed = {}
        /\ fcurve = fcurve0
        /\ frame_current = clock0
        /\ ~stale

C7_Witness ==
    /\ pc = "error"
    /\ Selected
    /\ "ERROR_FRAME_RANGE" \in printed

\* C8: when Matrix.inverted() fails at frame f, f is the first frame of the
\* range without inverse, the frames of [frame_start, f-1] each keep their
\* location and rotation keyframe, and frame f and the later frames have
\* neither a pose write nor a keyframe.
C8_CommittedPrefix ==
    pc = "raised" =>
        /\ frame \in Range
        /\ NoInverseAt(frame)
        /\ \A g \in Range : g < frame => ~NoInverseAt(g)
        /\ Committed = frame_start..(frame - 1)
        /\ \A g \in Frames :
              IF g \in frame_start..(frame - 1)
              THEN /\ Count("pose_write", g, {""}) = 1
                   /\ Count("keyframe_insert", g, {"location"}) = 1
                   /\ Count("keyframe_insert", g, RotationPaths) = 1
                   /\ <<"location", g>> \in keyframes
                   /\ \E path \in RotationPaths : <<path, g>> \in keyframes
                   /\ fcurve[g] = committed[run][g]
              ELSE /\ Count("pose_write", g, {""}) = 0
                   /\ Count("keyframe_insert", g, {"location"} \cup RotationPaths) = 0
                   /\ fcurve[g] = fcurve0[g]

\* a failure after the first frame of the range has been keyed
C8_Witness ==
    /\ pc = "raised"
    /\ frame > frame_start
    /\ <<"location", frame_start>> \in keyframes

\* C9: when a sampled Empty or armature matrix has no inverse, the run does
\* not end with only some frames of the range corrected and keyframed.
C9_NoPartialCorrection ==
    (Terminal /\ \E f \in DOMAIN samples : NoInverseAt(f)) => Committed \in {{}, Range}

\* C10: every error ends the invocation with an error message and without an
\* exception leaving main().
C10_ErrorsReported ==
    /\ pc # "raised"
    /\ pc = "error" => printed \cap ErrorMessages # {}

Entries3(m) ==
    <<<<m[1][1], m[1][2], m[1][3]>>,
      <<m[2][1], m[2][2], m[2][3]>>,
      <<m[3][1], m[3][2], m[3][3]>>>>

\* rot(anchor at frame_start) . inverse(rot(anchor at f)) . rot(subject at f)
RelativeRotation(f) ==
    LET inv == Entries3(Inv3(samples[f].empty_w.r))
        rel == Entries3(Mul3(samples[frame_start].empty_w.r, inv))
    IN Entries3(Mul3(rel, samples[f].bone_w.r))

\* C11 as amended: the rotation block of the corrected world matrix is
\* empty_w_start's times the inverse of the Empty's at the frame times the
\* sampled one; it is the sampled rotation, and the committed matrix has the
\* original rotation, at the frames where the Empty is turned as at frame_start.
\* Stated for all frames committed so far each time pose_bone.matrix has been
\* written, the one step that commits a matrix.
C11_RotationRelativeToAnchor ==
    pc = "p2_key_location" => \A f \in Committed :
        /\ Entries3(CorrectedWorld(f).r) = RelativeRotation(f)
        /\ samples[f].empty_w.r = samples[frame_start].empty_w.r =>
              /\ CorrectedWorld(f).r = samples[f].bone_w.r
              /\ committed[run][f].r = fcurve0[f].r

\* a frame where the Empty has moved without turning
C11_Witness ==
    \E f \in Committed :
        /\ pc = "p2_key_location"
        /\ samples[f].empty_w.r = samples[frame_start].empty_w.r
        /\ samples[f].empty_w.t # samples[frame_start].empty_w.t
        /\ samples[f].bone_w.r # I3

\* C11 as stated: at every frame the corrected matrix has the sampled
\* rotation, also when the Empty's rotation differs from that at frame_start.
C11_RotationKept ==
    \A f \in Committed : CorrectedWorld(f).r = samples[f].bone_w.r

\* the rotation channel of the bone's rotation mode
RotationChannel ==
    CASE rotation_mode = "QUATERNION" -> "rotation_quaternion"
      [] rotation_mode = "AXIS_ANGLE" -> "rotation_axis_angle"
      [] OTHER -> "rotation_euler"

\* host calls of Phase 2 for the frames f..FRAME_END, in order
RECURSIVE CorrectionCalls(_)
CorrectionCalls(f) ==
    IF f > FRAME_END
    THEN <<>>
    ELSE <<Event("frame_set", f, ""), Event("update", f, ""),
           Event("pose_write", f, ""), Event("update", f, ""),
           Event("keyframe_insert", f, "location"),
           Event("keyframe_insert", f, RotationChannel)>> \o CorrectionCalls(f + 1)

\* number of host calls of Phase 1: frame_set, update and sample per frame
SamplingLength == 3 * (FRAME_END - frame_start + 1)

\* C12: on a completed run every frame of the range gets one location and one
\* rotation keyframe, frames in increasing order, each frame as pose write,
\* update, location keyframe, rotation keyframe, the rotation keyframe always
\* on the channel of the bone's rotation mode.
C12_KeyframesPerFrame ==
    pc = "done" =>
        /\ SubSeq(log, SamplingLength + 1, Len(log) - 2) = CorrectionCalls(frame_start)
        /\ \A f \in Range :
              /\ Count("keyframe_insert", f, {"location"}) = 1
              /\ Count("keyframe_insert", f, RotationPaths) = 1
              /\ {<<"location", f>>, <<RotationChannel, f>>} \subseteq keyframes

C12_Witness ==
    /\ pc = "done"
    /\ frame_start < FRAME_END
    /\ rotation_mode = "AXIS_ANGLE"
    /\ <<"rotation_axis_angle", FRAME_END>> \in keyframes

\* C13: every frame_set is followed by an update before a matrix is read or
\* a keyframe inserted, in both phases and at the final restore: the clock
\* has not changed since the last evaluation wherever the host is read.
C13_EvaluateBeforeRead ==
    /\ stale => pc \in {"p1_update", "p2_update", "restore_update"}
    /\ pc \in {"p1_sample", "p2_key_location", "p2_key_rotation", "done"} => ~stale
    /\ \A i \in DOMAIN log :
          /\ (log[i].op = "frame_set" /\ i < Len(log)) =>
                log[i + 1] = Event("update", log[i].frame, "")
          /\ log[i].op \in {"sample", "keyframe_insert"} =>
                \E j \in 1..(i - 1) :
                    /\ log[j] = Event("update", log[i].frame, "")
                    /\ \A k \in (j + 1)..(i - 1) : log[k].op # "frame_set"
    /\ pc = "done" => log[Len(log)] = Event("update", clock0, "")

\* the matrices of a later frame about to be read, evaluated for that frame
C13_Witness ==
    /\ pc = "p1_sample"
    /\ frame > frame_start
    /\ ~stale
    /\ empty_matrix_world = emptyAnim[frame]
    /\ emptyAnim[frame] # emptyAnim[frame_start]

CorrectorPcs ==
    {"p2_frame_set", "p2_update", "p2_desired", "p2_write", "p2_key_location",
     "p2_key_rotation", "restore_update", "done", "raised"}

\* what Phase 1 captures at frame f: the scene as animated at the invocation
Captured(f) ==
    [arm_w |-> armAnim[f],
     bone_w |-> MatMul(armAnim[f], fcurve0[f]),
     empty_w |-> emptyAnim[f]]

\* C14: the samples and the reference Empty matrix keep, all through Phase 2,
\* the values captured in Phase 1, and the matrix written at frame t is the
\* desired world matrix in the space of the armature matrix captured for t.
C14_SamplesFrozen ==
    /\ \A f \in DOMAIN samples : samples[f] = Captured(f)
    /\ pc \in CorrectorPcs =>
          /\ DOMAIN samples = Range
          /\ empty_w_start = emptyAnim[frame_start]
    /\ pc \in {"p2_key_location", "p2_key_rotation"} =>
          /\ pose_matrix = committed[run][frame]
          /\ MatMul(Captured(frame).arm_w, committed[run][frame]) = desired_bone_w

\* a completed run over a scene that differs between the frames and whose
\* writes have changed the bone's animation
C14_Witness ==
    /\ pc = "done"
    /\ frame_start < FRAME_END
    /\ emptyAnim[FRAME_END] # emptyAnim[frame_start]
    /\ armAnim[FRAME_END] # armAnim[frame_start]
    /\ fcurve # fcurve0

\* host calls of Phase 1 for the frames a..b, in order
RECURSIVE SamplingCalls(_, _)
SamplingCalls(a, b) ==
    IF a > b
    THEN <<>>
    ELSE <<Event("frame_set", a, ""), Event("update", a, ""), Event("sample", a, "")>>
             \o SamplingCalls(a + 1, b)

\* C15: Phase 1 sets the clock to each frame of [frame_start, FRAME_END] once,
\* in increasing order, changes nothing of the bone's animation, and ends
\* with samples for exactly the frames of the range, so that Phase 2 finds a
\* sample for every frame it looks up; also when frame_start = FRAME_END.
C15_SamplerPass ==
    /\ pc \in {"p1_frame_set", "p1_update", "p1_sample"} =>
          /\ DOMAIN samples = frame_start..(frame - 1)
          /\ SubSeq(log, 1, 3 * (frame - frame_start)) = SamplingCalls(frame_start, frame - 1)
          /\ Len(log) <= 3 * (frame - frame_start) + 2
          /\ \A i \in DOMAIN log : log[i].op \in {"frame_set", "update", "sample"}
          /\ fcurve = fcurve0
          /\ Committed = {}
    /\ pc \in CorrectorPcs =>
          /\ DOMAIN samples = Range
          /\ SubSeq(log, 1, SamplingLength) = SamplingCalls(frame_start, FRAME_END)
    /\ (pc = "p2_frame_set" /\ Len(log) = SamplingLength) =>
          /\ fcurve = fcurve0
          /\ frame_current = FRAME_END
    /\ pc \in {"p2_desired", "p2_write"} => frame \in DOMAIN samples

\* the end of Phase 1 over more than one frame
C15_Witness ==
    /\ pc = "p2_frame_set"
    /\ Len(log) = SamplingLength
    /\ frame_start < FRAME_END
    /\ DOMAIN samples = Range

\* the end of Phase 1 over the single frame frame_start = FRAME_END
C15_SingleFrame ==
    /\ pc = "p2_frame_set"
    /\ Len(log) = SamplingLength
    /\ frame_start = FRAME_END
    /\ DOMAIN samples = {FRAME_END}

\* a matrix written out entry by entry
Entries(m) ==
    Mat(<<<<m.r[1][1], m.r[1][2], m.r[1][3]>>,
          <<m.r[2][1], m.r[2][2], m.r[2][3]>>,
          <<m.r[3][1], m.r[3][2], m.r[3][3]>>>>,
        <<m.t[1], m.t[2], m.t[3]>>)

\* the committed matrix as a function of one frame's sample s, the reference
\* Empty matrix ref and the axis mask, and of nothing else
CommitOf(s, ref, mask) ==
    LET rel == Entries(MatMul(ref, Entries(Inverted(s.empty_w))))
        d == Entries(MatMul(rel, s.bone_w))
        t == <<IF mask[1] THEN d.t[1] ELSE s.bone_w.t[1],
               IF mask[2] THEN d.t[2] ELSE s.bone_w.t[2],
               IF mask[3] THEN d.t[3] ELSE s.bone_w.t[3]>>
    IN MatMul(Entries(Inverted(s.arm_w)), Mat(d.r, t))

\* C16: the matrix committed at frame t is, when it is written, determined by
\* the sample of t, the Empty's sample of frame_start and the axis mask alone;
\* the samples and the corrections of the other frames do not enter it.
C16_FrameIndependence ==
    pc = "p2_key_location" =>
        /\ frame \in Committed
        /\ committed[run][frame] =
              CommitOf(samples[frame], samples[frame_start].empty_w, AxisMask)

\* a later frame just written whose sample differs from an earlier frame's in
\* all three matrices
C16_Witness ==
    \E t \in Committed : \E u \in Committed :
        /\ pc = "p2_key_location"
        /\ u = frame
        /\ t < u
        /\ samples[t].arm_w # samples[u].arm_w
        /\ samples[t].bone_w # samples[u].bone_w
        /\ samples[t].empty_w # samples[u].empty_w
        /\ committed[run][u] # fcurve0[u]

====
